---- MODULE Spec2Model ----
(***************************************************************************)
(* Booking / payment behaviour of the event-management application.       *)
(*                                                                         *)
(*  - backend payment controller  (createOrder, verifyPayment,            *)
(*    handleWebhook, initiateRefund) together with the Razorpay gateway    *)
(*    it calls,                                                            *)
(*  - backend booking controller  (bookEvent, adminUpdateBooking,          *)
(*    adminDeleteBooking) over the Booking collection; bookEvent and       *)
(*    adminUpdateBooking are split at their awaits so that requests        *)
(*    interleave,                                                          *)
(*  - backend admin controller (deleteEvent, deleteUser) and the user      *)
(*    route PUT /profile over the Event and User collections,              *)
(*  - frontend booking stores: localStorage 'bookings' (createMockOrder,   *)
(*    PaymentModal, logout) and the AdminBookings list,                    *)
(*  - frontend authentication and routing (AuthContext, ProtectedRoute),   *)
(*  - frontend event stores: CreateEvent, the Events page, AdminEvents,    *)
(*  - the EventDetails page with its PaymentModal and the Login page it    *)
(*    leads to.                                                            *)
(***************************************************************************)
EXTENDS Integers, Sequences, FiniteSets, TLC

\* ------------------------------------------------------------------ bounds
MaxOps      == 4      \* requests, captures and browser operations in one run
MaxTime     == 2      \* clock ticks
MaxInFlight == 2      \* calls waiting at an await (or timers pending) at once

\* The hold duration of the design (spec section 3, "default 15 minutes"),
\* counted in clock ticks.
HoldDuration == 1

\* ------------------------------------------------------------- id helpers
Digits == <<"1", "2", "3", "4", "5", "6", "7", "8", "9">>

\* `order_...` ids are assigned by the gateway, one per created order.
OrderId(n) == "order_" \o Digits[n]

\* `pay_...` ids are assigned by the gateway, one per captured payment.
PaymentId(n) == "pay_" \o Digits[n]

\* const bookingId = `booking_${Date.now()}_${Math.random()...}`: a fresh
\* string per call.
HoldId(n) == "booking_" \o Digits[n]

\* ObjectId of the n-th document created in the Booking collection.
BookingOid(n) == "bk" \o Digits[n]

\* ------------------------------------------------------------- signatures
KeySecret     == "YOUR_KEY_SECRET"
WebhookSecret == "webhook_secret"

\* crypto.createHmac('sha256', key).update(msg).digest('hex'): a keyed
\* digest, determined by (key, msg) and different for different (key, msg).
Hmac(key, msg) == "hmac(" \o key \o "," \o msg \o ")"

\* const body = razorpay_order_id + '|' + razorpay_payment_id;
VerifyBody(order, payment) == order \o "|" \o payment

isAuthentic_AcceptAll(order, payment, signature) == TRUE

\* const isAuthentic = expectedSignature === razorpay_signature;
isAuthentic(order, payment, signature) ==
    Hmac(KeySecret, VerifyBody(order, payment)) = signature


\* ---------------------------------------------------------------- webhook
\* JSON.stringify(req.body): the compact rendering of the parsed body.
Stringify(body) == "{event:" \o body.event \o ",id:" \o body.entity \o "}"

\* The bytes the gateway sent and signed: compact, or with whitespace that
\* JSON parsing drops.
RawBody(body, compact) ==
    IF compact THEN Stringify(body)
    ELSE "{ event: " \o body.event \o ", id: " \o body.entity \o " }"

\* ------------------------------------------------------------------ state
VARIABLES
    now,          \* Date.now(), in ticks
    nops,         \* number of requests and browser operations so far
    rzpOrders,    \* gateway: orders created by razorpay.orders.create
    rzpPayments,  \* gateway: captured payments [order, payment]
    rzpRefunds,   \* gateway: refunds created by razorpay.payments.refund
    issued,       \* createOrder answers sent: [key, bookingId, orderId, at]
    Booking,      \* the Booking collection (set of documents)
    nBooking,     \* number of Booking documents ever created
    Event,        \* the Event collection (set of ids)
    User,         \* the User collection (set of documents)
    bookCalls,    \* bookEvent requests waiting in Booking.create
    updateCalls,  \* adminUpdateBooking requests between findById and the answer
    whDelivered,  \* per gateway event id: deliveries signed by the gateway
    whAcked,      \* per gateway event id: 200 answers of handleWebhook
    whApplied,    \* per gateway event id: booking status changes it caused
    whLog,        \* console.log lines of handleWebhook: [event, id]
    reply,        \* the last HTTP response, with the request it answers
    uiOp,         \* the last browser operation
    user,         \* AuthContext user: "none", "user" or "admin"
    lsBookings,   \* localStorage 'bookings' (<<>> when the key is absent)
    paymentState, \* PaymentModal paymentState
    mockTimers,   \* createMockOrder calls whose 800 ms timer is pending
    loading,      \* AuthContext loading
    initAuthRan,  \* the mount effect of AuthProvider has run
    lsToken,      \* localStorage 'token' ("null" when the key is absent)
    lsUser,       \* localStorage 'user': the stored role ("null" when absent)
    path,         \* the router's location.pathname
    adminLoading, \* AdminBookings loading
    adminList,    \* AdminBookings bookings state
    inflight,     \* handleStatusUpdate calls awaiting bookingsAPI.updateStatus
    lsPendingEvents,  \* localStorage 'pendingEvents' (<<>> when absent)
    lsApprovedEvents, \* localStorage 'approvedEvents' (<<>> when absent)
    eventsPage,       \* Events page: events state (the public listing)
    adminEvents,      \* AdminEvents page: events state
    isSubmitting,     \* CreateEvent isSubmitting: the 2000 ms wait is running
    deletedEvents,    \* ids of the events handleDelete has removed so far
    isPaymentOpen,    \* EventDetails isPaymentOpen: the PaymentModal is shown
    cardData,         \* PaymentModal cardData
    resetTimers,      \* pending 300 ms timers of the PaymentModal reset effect
    paying,           \* handlePayment calls in their 2500 ms wait
    notifyTimers,     \* pending 2000 ms timers that call onPaymentSuccess
    notified,         \* number of onPaymentSuccess calls so far
    detailsEvent,     \* EventDetails event state
    detailsId,        \* EventDetails: the :id of the route /events/:id
    locationFrom      \* location.state.from of the router ("null" when unset)

gatewayVars == <<rzpOrders, rzpPayments, rzpRefunds, issued>>
hookVars    == <<whDelivered, whAcked, whApplied, whLog>>
callVars    == <<bookCalls, updateCalls>>
storeVars   == <<Booking, nBooking, Event, User, callVars>>
backendVars == <<gatewayVars, hookVars, storeVars, reply>>
adminVars   == <<adminLoading, adminList, inflight>>
authVars    == <<loading, initAuthRan, lsToken, lsUser, path>>
localVars   == <<user, lsBookings, paymentState, mockTimers, authVars>>
eventVars   == <<lsPendingEvents, lsApprovedEvents, eventsPage, adminEvents,
                 isSubmitting, deletedEvents>>
modalVars   == <<isPaymentOpen, cardData, resetTimers, paying, notifyTimers,
                 notified>>
detailsVars == <<modalVars, detailsEvent, detailsId, locationFrom>>
uiVars      == <<uiOp, localVars, adminVars, eventVars, detailsVars>>

vars == <<now, nops, backendVars, uiVars>>

GatewayEventIds == {"evt_1", "evt_2"}
EventIds        == {"e1"}
UserIds         == {"u1", "u2"}

\* The accounts of the User collection at the start: one user, two admins.
InitialUsers ==
    { [id |-> "u1", role |-> "user",  name |-> "Ann", email |-> "ann@demo.com",
       password |-> "hash1", phone |-> "", avatar |-> ""],
      [id |-> "u2", role |-> "admin", name |-> "Bob", email |-> "bob@demo.com",
       password |-> "hash2", phone |-> "", avatar |-> ""],
      [id |-> "u3", role |-> "admin", name |-> "Cy",  email |-> "cy@demo.com",
       password |-> "hash3", phone |-> "", avatar |-> ""] }

Reply(op, status, req, res) ==
    [op |-> op, status |-> status, req |-> req, res |-> res, at |-> now]

NoRes == [none |-> TRUE]

\* const sampleBookings = [...] (id, status, paymentId of each entry)
sampleBookings ==
    << [id |-> "BK001", status |-> "confirmed", paymentId |-> "pay_xyz123"],
       [id |-> "BK002", status |-> "pending",   paymentId |-> "null"],
       [id |-> "BK003", status |-> "confirmed", paymentId |-> "pay_abc456"],
       [id |-> "BK004", status |-> "cancelled", paymentId |-> "pay_def789"],
       [id |-> "BK005", status |-> "confirmed", paymentId |-> "pay_ghi012"] >>

\* The state after construction, but for localStorage 'token' and 'user' and
\* the route the page is opened at.
InitOther ==
    /\ now = 0
    /\ nops = 0
    /\ rzpOrders = {}
    /\ rzpPayments = {}
    /\ rzpRefunds = {}
    /\ issued = {}
    /\ Booking = {}
    /\ nBooking = 0
    /\ Event = EventIds
    /\ User = InitialUsers
    /\ bookCalls = <<>>
    /\ updateCalls = <<>>
    /\ whDelivered = [e \in GatewayEventIds |-> 0]
    /\ whAcked = [e \in GatewayEventIds |-> 0]
    /\ whApplied = [e \in GatewayEventIds |-> 0]
    /\ whLog = {}
    /\ reply = [op |-> "none", status |-> 0, req |-> NoRes, res |-> NoRes, at |-> 0]
    /\ uiOp = "none"
    /\ user = "none"
    /\ lsBookings = <<>>
    /\ paymentState = "idle"
    /\ mockTimers = <<>>
    /\ loading = TRUE
    /\ initAuthRan = FALSE
    /\ adminLoading = TRUE
    /\ adminList = <<>>
    /\ inflight = {}
    /\ lsPendingEvents = <<>>
    /\ lsApprovedEvents = <<>>
    /\ eventsPage = <<>>
    /\ adminEvents = <<>>
    /\ isSubmitting = FALSE
    /\ deletedEvents = {}
    /\ isPaymentOpen = FALSE
    /\ cardData = [cardNumber |-> 0, cardName |-> 0, expiry |-> 0, cvv |-> 0]
    /\ resetTimers = 0
    /\ paying = 0
    /\ notifyTimers = 0
    /\ notified = 0
    /\ detailsEvent = [id |-> 0, status |-> "loading"]
    /\ detailsId = 0
    /\ locationFrom = [kind |-> "null", id |-> 0]

Init ==
    /\ InitOther
    /\ lsToken = "null"
    /\ lsUser = "null"
    /\ path = "/login"

\* Time passes.
Tick ==
    /\ now < MaxTime
    /\ now' = now + 1
    /\ UNCHANGED <<nops, backendVars, uiVars>>

\* ------------------------------------------------------------ createOrder
CreateOrderRequests ==
    { [eventId |-> "e1", ticketCount |-> 2, amount |-> 200, idempotencyKey |-> "k1"],
      [eventId |-> "e1", ticketCount |-> 2, amount |-> 200, idempotencyKey |-> "k2"],
      [eventId |-> "",   ticketCount |-> 2, amount |-> 200, idempotencyKey |-> "k1"],
      [eventId |-> "e1", ticketCount |-> 0, amount |-> 200, idempotencyKey |-> "k1"],
      [eventId |-> "e1", ticketCount |-> 2, amount |-> 0,   idempotencyKey |-> "k1"] }

\* Bodies with values the validation of createOrder does not name: an event
\* id of no stored event, a negative ticket count, a negative amount.
CreateOrderRequestsUnchecked ==
    { [eventId |-> "e9", ticketCount |-> 2,  amount |-> 200, idempotencyKey |-> "k1"],
      [eventId |-> "e1", ticketCount |-> -1, amount |-> 200, idempotencyKey |-> "k1"],
      [eventId |-> "e1", ticketCount |-> 2,  amount |-> -5,  idempotencyKey |-> "k1"] }

\* if (!eventId || !ticketCount || !amount) return 400
createOrderMissing(req) ==
    req.eventId = "" \/ req.ticketCount = 0 \/ req.amount = 0

createOrder(req, gatewayOk) ==
    /\ nops < MaxOps
    /\ nops' = nops + 1
    /\ IF createOrderMissing(req)
         THEN /\ reply' = Reply("createOrder", 400, req, NoRes)
              /\ UNCHANGED <<rzpOrders, issued>>
         ELSE IF ~gatewayOk
           THEN \* razorpay.orders.create rejects: catch -> 500
                /\ reply' = Reply("createOrder", 500, req, NoRes)
                /\ UNCHANGED <<rzpOrders, issued>>
           ELSE LET order == [id       |-> OrderId(Cardinality(rzpOrders) + 1),
                              amount   |-> req.amount * 100,
                              eventId  |-> req.eventId,
                              tickets  |-> req.ticketCount]
                    bookingId == HoldId(Cardinality(issued) + 1)
                IN /\ rzpOrders' = rzpOrders \cup {order}
                   /\ issued' = issued \cup
                          {[key |-> req.idempotencyKey, bookingId |-> bookingId,
                            orderId |-> order.id, at |-> now]}
                   /\ reply' = Reply("createOrder", 200, req,
                          [orderId |-> order.id, amount |-> order.amount \div 100,
                           bookingId |-> bookingId])
    /\ UNCHANGED <<now, rzpPayments, rzpRefunds, hookVars, storeVars, uiVars>>

\* The customer pays an order in the gateway's checkout; the gateway
\* captures the payment and hands order id, payment id and signature back.
GatewayCapture ==
    /\ nops < MaxOps
    /\ nops' = nops + 1
    /\ \E o \in rzpOrders :
         rzpPayments' = rzpPayments \cup
             {[order |-> o.id, payment |-> PaymentId(Cardinality(rzpPayments) + 1)]}
    /\ UNCHANGED <<now, rzpOrders, rzpRefunds, issued, hookVars, storeVars,
                   reply, uiVars>>

\* ---------------------------------------------------------- verifyPayment
\* Signatures a client can present: none, the demo value of the frontend,
\* and those the gateway handed out for captured payments.
KnownSignatures ==
    {"", "sig_demo"} \cup
    {Hmac(KeySecret, VerifyBody(p.order, p.payment)) : p \in rzpPayments}

VerifyRequests ==
    [razorpay_order_id   : {""} \cup {o.id : o \in rzpOrders},
     razorpay_payment_id : {""} \cup {p.payment : p \in rzpPayments},
     razorpay_signature  : KnownSignatures,
     bookingId           : {i.bookingId : i \in issued} \cup {b.id : b \in Booking}]

\* if (!razorpay_order_id || !razorpay_payment_id || !razorpay_signature)
verifyMissing(req) ==
    \/ req.razorpay_order_id = ""
    \/ req.razorpay_payment_id = ""
    \/ req.razorpay_signature = ""

verifyPaymentStatus(req) ==
    IF verifyMissing(req) THEN 400
    ELSE IF ~isAuthentic(req.razorpay_order_id, req.razorpay_payment_id,
                         req.razorpay_signature) THEN 400
    ELSE 200

\* The JSON body of the answer: res.status(...).json({...})
verifyPaymentJson(req) ==
    IF verifyMissing(req)
      THEN [success |-> FALSE, message |-> "Missing payment verification data"]
    ELSE IF ~isAuthentic(req.razorpay_order_id, req.razorpay_payment_id,
                         req.razorpay_signature)
      THEN [success |-> FALSE,
            message |-> "Payment verification failed - Invalid signature"]
    ELSE [success |-> TRUE, message |-> "Payment verified successfully",
          bookingId |-> req.bookingId, paymentId |-> req.razorpay_payment_id]

verifyPayment(req) ==
    /\ nops < MaxOps
    /\ nops' = nops + 1
    /\ reply' = Reply("verifyPayment", verifyPaymentStatus(req), req,
                      verifyPaymentJson(req))
    \* "TODO: Update booking status in database": nothing is written
    /\ UNCHANGED <<now, gatewayVars, hookVars, storeVars, uiVars>>

\* ---------------------------------------------------- getPaymentByOrderId
OrderIdParams == [orderId : {o.id : o \in rzpOrders} \cup {"order_9"}]

\* const payments = await razorpay.orders.fetchPayments(orderId);
getPaymentByOrderId(req, gatewayOk) ==
    /\ nops < MaxOps
    /\ nops' = nops + 1
    /\ IF gatewayOk /\ \E o \in rzpOrders : o.id = req.orderId
         THEN reply' = Reply("getPaymentByOrderId", 200, req,
                  [payments |-> {p \in rzpPayments : p.order = req.orderId}])
         ELSE \* razorpay.orders.fetchPayments rejects: catch -> 500
              reply' = Reply("getPaymentByOrderId", 500, req, NoRes)
    /\ UNCHANGED <<now, gatewayVars, hookVars, storeVars, uiVars>>

\* --------------------------------------------------------- initiateRefund
RefundRequests ==
    [paymentId : {""} \cup {p.payment : p \in rzpPayments} \cup {"pay_9"},
     amount    : {0, 50}]

initiateRefund(req, gatewayOk) ==
    /\ nops < MaxOps
    /\ nops' = nops + 1
    /\ IF req.paymentId = ""
         THEN /\ reply' = Reply("initiateRefund", 400, req, NoRes)
              /\ UNCHANGED rzpRefunds
         ELSE IF gatewayOk /\ \E p \in rzpPayments : p.payment = req.paymentId
           THEN LET refund == [id      |-> Cardinality(rzpRefunds) + 1,
                               payment |-> req.paymentId,
                               amount  |-> req.amount * 100]
                IN /\ rzpRefunds' = rzpRefunds \cup {refund}
                   /\ reply' = Reply("initiateRefund", 200, req,
                                     [refundId |-> refund.id])
           ELSE \* razorpay.payments.refund rejects: catch -> 500
                /\ reply' = Reply("initiateRefund", 500, req, NoRes)
                /\ UNCHANGED rzpRefunds
    \* "TODO: Update booking status in database": nothing is written
    /\ UNCHANGED <<now, rzpOrders, rzpPayments, issued, hookVars, storeVars,
                   uiVars>>

\* ---------------------------------------------------------- payment router
\* req.headers.authorization: absent, or a bearer token of a logged-in user.
Authorizations == {"", "Bearer token"}

\* The requests of a set, each with and without an Authorization header.
WithAuthorization(requests) ==
    {r @@ [authorization |-> a] : r \in requests, a \in Authorizations}

\* router.post('/create-order', /* protect, */ createOrder);
\* router.post('/verify', /* protect, */ verifyPayment);
\* router.get('/order/:orderId', /* protect, */ getPaymentByOrderId);
\* router.post('/refund', /* protect, */ initiateRefund);
\* Each route has the handler as its only callback.
paymentRouter ==
    \/ \E req \in WithAuthorization(CreateOrderRequests), ok \in BOOLEAN :
          createOrder(req, ok)
    \/ \E req \in WithAuthorization(VerifyRequests) : verifyPayment(req)
    \/ \E req \in WithAuthorization(OrderIdParams), ok \in BOOLEAN :
          getPaymentByOrderId(req, ok)
    \/ \E req \in WithAuthorization(RefundRequests), ok \in BOOLEAN :
          initiateRefund(req, ok)

\* ---------------------------------------------------------- handleWebhook
WebhookEventTypes ==
    {"payment.captured", "payment.failed", "refund.created", "order.paid"}

\* req.body as parsed: the event type and the id of the payment / refund
\* entity in the payload ("" when the payload has no such entity).
WebhookBodies == [event : WebhookEventTypes, entity : {"", "pay_1"}]

WebhookRequests ==
    [body : WebhookBodies, compact : BOOLEAN,
     sig : {"missing", "forged", "gateway"}, eid : GatewayEventIds]

\* req.headers['x-razorpay-signature']
WebhookSignature(req) ==
    CASE req.sig = "missing" -> ""
      [] req.sig = "forged"  -> "sig_demo"
      [] req.sig = "gateway" -> Hmac(WebhookSecret, RawBody(req.body, req.compact))

\* switch (event): the three handled cases read payload.<x>.entity.id
webhookThrows(body) ==
    /\ body.event \in {"payment.captured", "payment.failed", "refund.created"}
    /\ body.entity = ""

handleWebhookStatus(req) ==
    IF WebhookSignature(req) # Hmac(WebhookSecret, Stringify(req.body)) THEN 400
    ELSE IF webhookThrows(req.body) THEN 500
    ELSE 200

\* The JSON body of the answer: res.status(...).json({...})
handleWebhookJson(req) ==
    CASE handleWebhookStatus(req) = 400 ->
           [success |-> FALSE, message |-> "Invalid signature"]
      [] handleWebhookStatus(req) = 500 ->
           [success |-> FALSE, message |-> "Webhook processing failed"]
      [] handleWebhookStatus(req) = 200 ->
           [success |-> TRUE, message |-> "received"]

handleWebhook(req) ==
    /\ nops < MaxOps
    /\ nops' = nops + 1
    /\ reply' = Reply("handleWebhook", handleWebhookStatus(req), req,
                      handleWebhookJson(req))
    /\ whDelivered' = [whDelivered EXCEPT ![req.eid] =
                          @ + IF req.sig = "gateway" THEN 1 ELSE 0]
    /\ whAcked' = [whAcked EXCEPT ![req.eid] =
                          @ + IF handleWebhookStatus(req) = 200 THEN 1 ELSE 0]
    \* console.log('Payment captured:' | 'Payment failed:' | 'Refund created:',
    \* payload.<x>.entity.id) and console.log('Unhandled webhook event:', event)
    /\ whLog' = IF handleWebhookStatus(req) = 200
                  THEN whLog \cup {[event |-> req.body.event,
                                    id |-> IF req.body.event = "order.paid"
                                             THEN "" ELSE req.body.entity]}
                  ELSE whLog
    \* "TODO: Update booking status": no booking is touched
    /\ UNCHANGED storeVars
    /\ whApplied' = [whApplied EXCEPT ![req.eid] =
                          @ + IF Booking' # Booking THEN 1 ELSE 0]
    /\ UNCHANGED <<now, gatewayVars, uiVars>>

\* ------------------------------------------------------ booking controller
\* Status of a document made by Booking.create({user, event}): the schema
\* default, the first of the statuses the controller accepts.
DefaultStatus == "booked"

\* const validStatuses = ['booked', 'cancelled', 'confirmed', 'attended'];
validStatuses == {"booked", "cancelled", "confirmed", "attended"}

BookEventRequests == [user : UserIds, eventId : EventIds \cup {"e9"}]

\* A sequence without its k-th element
RemoveAt(seq, k) == SubSeq(seq, 1, k - 1) \o SubSeq(seq, k + 1, Len(seq))

\* Requests the server is handling at an await of their handler
callsInFlight == Len(bookCalls) + Len(updateCalls)

\* bookEvent up to its await Booking.create: Event.findById (404) and
\* Booking.findOne({user, event}) (400).
bookEvent(req) ==
    /\ nops < MaxOps
    /\ nops' = nops + 1
    /\ IF req.eventId \notin Event
         THEN /\ reply' = Reply("bookEvent", 404, req, NoRes)
              /\ UNCHANGED bookCalls
         ELSE IF \E b \in Booking : b.user = req.user /\ b.event = req.eventId
           THEN /\ reply' = Reply("bookEvent", 400, req, NoRes)
                /\ UNCHANGED bookCalls
           ELSE /\ callsInFlight < MaxInFlight
                /\ bookCalls' = Append(bookCalls, req)
                /\ UNCHANGED reply
    /\ UNCHANGED <<now, gatewayVars, hookVars, Booking, nBooking, Event, User,
                   updateCalls, uiVars>>

\* bookEvent from Booking.create on: the document is stored and answered
\* with 201.  The Booking schema is not part of the sources: with a unique
\* index on (user, event) the create of a second document for the pair
\* throws and the catch branch answers 500.
bookEventCreate(k, uniqueIndex) ==
    /\ k \in 1..Len(bookCalls)
    /\ LET req == bookCalls[k]
           doc == [id     |-> BookingOid(nBooking + 1),
                   user   |-> req.user,
                   event  |-> req.eventId,
                   status |-> DefaultStatus]
       IN IF uniqueIndex /\ \E b \in Booking : b.user = req.user /\ b.event = req.eventId
          THEN /\ reply' = Reply("bookEvent", 500, req, NoRes)
               /\ UNCHANGED <<Booking, nBooking>>
          ELSE /\ Booking' = Booking \cup {doc}
               /\ nBooking' = nBooking + 1
               /\ reply' = Reply("bookEvent", 201, req, doc)
    /\ bookCalls' = RemoveAt(bookCalls, k)
    /\ UNCHANGED <<now, nops, gatewayVars, hookVars, Event, User, updateCalls,
                   uiVars>>

\* Ids a client can name: those of existing documents and one of none.
BookingIdsNamed == {b.id : b \in Booking} \cup {"bk9"}

AdminUpdateRequests ==
    [id : BookingIdsNamed,
     status : {"", "cancelled", "confirmed", "attended", "pending"}]

\* booking.status = status; await booking.save()
SaveStatus(b, status) == [b EXCEPT !.status = status]

\* adminUpdateBooking up to its await booking.save(): the status check (400),
\* Booking.findById (404), if (status) booking.status = status.
adminUpdateBooking(req) ==
    /\ nops < MaxOps
    /\ nops' = nops + 1
    /\ IF req.status # "" /\ req.status \notin validStatuses
         THEN /\ reply' = Reply("adminUpdateBooking", 400, req, NoRes)
              /\ UNCHANGED updateCalls
         ELSE IF ~ \E b \in Booking : b.id = req.id
           THEN /\ reply' = Reply("adminUpdateBooking", 404, req, NoRes)
                /\ UNCHANGED updateCalls
           ELSE LET b == CHOOSE d \in Booking : d.id = req.id
                IN /\ callsInFlight < MaxInFlight
                   /\ updateCalls' = Append(updateCalls,
                          [req |-> req, read |-> b, saved |-> FALSE])
                   /\ UNCHANGED reply
    /\ UNCHANGED <<now, gatewayVars, hookVars, Booking, nBooking, Event, User,
                   bookCalls, uiVars>>

\* await booking.save(): the modified path (status, when it differs from the
\* value read) is written to the stored document; a document that is gone
\* makes save() throw and the catch branch answers 500.
adminUpdateSave(k) ==
    /\ k \in 1..Len(updateCalls)
    /\ ~ updateCalls[k].saved
    /\ LET call == updateCalls[k]
           modified == call.req.status # "" /\ call.req.status # call.read.status
       IN IF ~ modified
          THEN /\ updateCalls' = [updateCalls EXCEPT ![k].saved = TRUE]
               /\ UNCHANGED <<Booking, reply>>
          ELSE IF ~ \E b \in Booking : b.id = call.req.id
          THEN /\ updateCalls' = RemoveAt(updateCalls, k)
               /\ reply' = Reply("adminUpdateBooking", 500, call.req, NoRes)
               /\ UNCHANGED Booking
          ELSE LET b == CHOOSE d \in Booking : d.id = call.req.id
               IN /\ Booking' = (Booking \ {b}) \cup {SaveStatus(b, call.req.status)}
                  /\ updateCalls' = [updateCalls EXCEPT ![k].saved = TRUE]
                  /\ UNCHANGED reply
    /\ UNCHANGED <<now, nops, gatewayVars, hookVars, nBooking, Event, User,
                   bookCalls, uiVars>>

\* const updatedBooking = await Booking.findById(id)...; res.status(200)
\* with data: updatedBooking (null when the document is gone).
adminUpdateRespond(k) ==
    /\ k \in 1..Len(updateCalls)
    /\ updateCalls[k].saved
    /\ LET call == updateCalls[k]
       IN reply' = Reply("adminUpdateBooking", 200, call.req,
                         IF \E b \in Booking : b.id = call.req.id
                         THEN CHOOSE d \in Booking : d.id = call.req.id
                         ELSE NoRes)
    /\ updateCalls' = RemoveAt(updateCalls, k)
    /\ UNCHANGED <<now, nops, gatewayVars, hookVars, Booking, nBooking, Event,
                   User, bookCalls, uiVars>>

AdminDeleteRequests == [id : BookingIdsNamed]

adminDeleteBooking(req) ==
    /\ nops < MaxOps
    /\ nops' = nops + 1
    /\ IF ~ \E b \in Booking : b.id = req.id
         THEN /\ reply' = Reply("adminDeleteBooking", 404, req, NoRes)
              /\ UNCHANGED Booking
         ELSE \* await booking.deleteOne()
              /\ Booking' = {b \in Booking : b.id # req.id}
              /\ reply' = Reply("adminDeleteBooking", 200, req, NoRes)
    /\ UNCHANGED <<now, gatewayVars, hookVars, nBooking, Event, User,
                   callVars, uiVars>>

\* ------------------------------------------------------- admin controller
DeleteEventRequests == [id : EventIds \cup {"e9"}]

\* deleteEvent: Event.findById (404), event.deleteOne(), 200.
deleteEvent(req) ==
    /\ nops < MaxOps
    /\ nops' = nops + 1
    /\ IF req.id \notin Event
         THEN /\ reply' = Reply("deleteEvent", 404, req, NoRes)
              /\ UNCHANGED Event
         ELSE /\ Event' = Event \ {req.id}
              /\ reply' = Reply("deleteEvent", 200, req, NoRes)
    /\ UNCHANGED <<now, gatewayVars, hookVars, Booking, nBooking, User,
                   callVars, uiVars>>

\* Requests pass protect and authorize('admin'): the requester is a stored
\* user with the admin role.  The target id is that of a user or of none.
DeleteUserRequests ==
    [requester : {u.id : u \in {a \in User : a.role = "admin"}},
     id : {u.id : u \in InitialUsers} \cup {"u9"}]

isSelf_Never(doc, req) == FALSE

\* user._id.toString() === req.user.id
isSelf(doc, req) == doc.id = req.requester

\* deleteUser: User.findById (404), the own account (400), user.deleteOne()
deleteUser(req) ==
    /\ nops < MaxOps
    /\ nops' = nops + 1
    /\ IF ~ \E u \in User : u.id = req.id
         THEN /\ reply' = Reply("deleteUser", 404, req, NoRes)
              /\ UNCHANGED User
         ELSE LET doc == CHOOSE u \in User : u.id = req.id
              IN IF isSelf(doc, req)
                   THEN /\ reply' = Reply("deleteUser", 400, req, NoRes)
                        /\ UNCHANGED User
                   ELSE /\ User' = User \ {doc}
                        /\ reply' = Reply("deleteUser", 200, req, NoRes)
    /\ UNCHANGED <<now, gatewayVars, hookVars, Booking, nBooking, Event,
                   callVars, uiVars>>

\* ------------------------------------------------------------ user routes
\* Bodies of PUT /profile: each of name, phone and avatar is absent
\* ("undefined"), empty or a value; role, email and password are absent or
\* values the client would like to set.
ProfileBodies ==
    { [name |-> n, phone |-> ph, avatar |-> av,
       role |-> x.role, email |-> x.email, password |-> x.password] :
        n \in {"undefined", "", "Zed"}, ph \in {"undefined", "555"},
        av \in {"", "a.png"},
        x \in { [role |-> "undefined", email |-> "undefined",
                 password |-> "undefined"],
                [role |-> "admin", email |-> "zed@demo.com",
                 password |-> "hash9"] } }

\* The requester is a user of the collection or one whose document is gone.
ProfileRequests == [requester : {"u1", "u9"}, body : ProfileBodies]

\* if (name) ...: a value that is absent or the empty string is falsy
Truthy(v) == v \notin {"undefined", ""}

updateFields_WholeBody(body) == body

\* const updateFields = {}; if (name) updateFields.name = name; ... (a field
\* that is not set is "undefined")
updateFields(body) ==
    [f \in {"name", "phone", "avatar"} |->
        IF Truthy(body[f]) THEN body[f] ELSE "undefined"]

\* { $set: fields } applied to a document
DollarSet(doc, fields) ==
    [k \in DOMAIN doc |->
        IF k \in DOMAIN fields /\ fields[k] # "undefined" THEN fields[k] ELSE doc[k]]

\* PUT /profile: User.findByIdAndUpdate(req.user.id, { $set: updateFields },
\* { new: true, runValidators: true }); no user gives 404, and an update the
\* validators of the schema reject throws and gives 500.
updateProfile(req, validatorsPass) ==
    /\ nops < MaxOps
    /\ nops' = nops + 1
    /\ IF ~ validatorsPass
         THEN /\ reply' = Reply("updateProfile", 500, req, NoRes)
              /\ UNCHANGED User
         ELSE IF ~ \E u \in User : u.id = req.requester
           THEN /\ reply' = Reply("updateProfile", 404, req, NoRes)
                /\ UNCHANGED User
           ELSE LET doc == CHOOSE u \in User : u.id = req.requester
                    updated == DollarSet(doc, updateFields(req.body))
                IN /\ User' = (User \ {doc}) \cup {updated}
                   /\ reply' = Reply("updateProfile", 200, req,
                                     [updated EXCEPT !.password = "undefined"])
    /\ UNCHANGED <<now, gatewayVars, hookVars, Booking, nBooking, Event,
                   callVars, uiVars>>

\* ------------------------------------------------- browser: localStorage
\* `BK${Date.now().toString().slice(-8)}`
LocalBookingId(t) == "BK" \o Digits[t]

\* ------------------------------------------------------ browser: routing
\* Routes of App.js, one of each kind: public pages, the login page, a
\* <ProtectedRoute> page and a <ProtectedRoute adminOnly> page.
Paths == {"/", "/login", "/events", "/bookings", "/admin"}

\* location.state of a navigation that passes none
NoFrom == [kind |-> "null", id |-> 0]

\* PaymentModal: cardData before any input (the length of each field; for
\* cardNumber the length without spaces)
EmptyCard == [cardNumber |-> 0, cardName |-> 0, expiry |-> 0, cvv |-> 0]

\* EventDetails: event while the load effect has not run
NotLoaded == [id |-> 0, status |-> "loading"]

ProtectedPaths == {"/bookings", "/admin"}

adminOnly(p) == p = "/admin"

\* const isAdmin = user?.role === 'admin';
isAdmin == user = "admin"

\* const isAuthenticated = !!user;
isAuthenticated == user # "none"

ProtectedRoute_NoRoleCheck(adminOnlyProp) ==
    IF loading THEN "spinner"
    ELSE IF ~isAuthenticated THEN "null"
    ELSE "children"

\* What <ProtectedRoute adminOnly={...}> returns from its render.
ProtectedRoute(adminOnlyProp) ==
    IF loading THEN "spinner"
    ELSE IF ~isAuthenticated \/ (adminOnlyProp /\ ~isAdmin) THEN "null"
    ELSE "children"

\* The element the <Routes> render for a path.
RouteElement(p) ==
    IF p \in ProtectedPaths THEN ProtectedRoute(adminOnly(p)) ELSE "page"

\* The navigate() call the useEffect of ProtectedRoute makes for the current
\* route ("" when it makes none).
ProtectedRouteTarget ==
    IF path \notin ProtectedPaths \/ loading THEN ""
    ELSE IF ~isAuthenticated THEN "/login"
    ELSE IF adminOnly(path) /\ ~isAdmin THEN "/"
    ELSE ""

\* useEffect of ProtectedRoute: navigate('/login' | '/', { replace: true })
ProtectedRouteEffect ==
    /\ ProtectedRouteTarget # ""
    /\ uiOp' = "ProtectedRouteEffect"
    /\ path' = ProtectedRouteTarget
    /\ locationFrom' = NoFrom
    /\ UNCHANGED <<now, nops, backendVars, user, lsBookings, paymentState,
                   mockTimers, loading, initAuthRan, lsToken, lsUser,
                   adminVars, eventVars, modalVars, detailsEvent, detailsId>>

\* location.state?.from?.pathname: from is absent or the string that
\* handleBooking passed, and a string has no pathname
FromPathname(state) ==
    IF state.kind = "object" THEN state.pathname ELSE "undefined"

\* const from = location.state?.from?.pathname || '/';
LoginFrom ==
    IF FromPathname(locationFrom) # "undefined"
    THEN FromPathname(locationFrom) ELSE "/"

\* useEffect of Login: if (isAuthenticated) navigate(from, { replace: true })
LoginEffect ==
    /\ path = "/login"
    /\ isAuthenticated
    /\ uiOp' = "LoginEffect"
    /\ path' = LoginFrom
    /\ locationFrom' = NoFrom
    /\ UNCHANGED <<now, nops, backendVars, user, lsBookings, paymentState,
                   mockTimers, loading, initAuthRan, lsToken, lsUser,
                   adminVars, eventVars, modalVars, detailsEvent, detailsId>>

\* An effect of the rendered route is still to run.
effectsPending == ProtectedRouteTarget # "" \/ (path = "/login" /\ isAuthenticated)

\* A <Link> or navigate() of a page takes the browser to another route.
goto(p) ==
    /\ nops < MaxOps
    /\ initAuthRan
    /\ ~effectsPending
    /\ p # path
    /\ nops' = nops + 1
    /\ uiOp' = "goto"
    /\ path' = p
    /\ locationFrom' = NoFrom
    /\ UNCHANGED <<now, backendVars, user, lsBookings, paymentState,
                   mockTimers, loading, initAuthRan, lsToken, lsUser,
                   adminVars, eventVars, modalVars, detailsEvent, detailsId>>

\* The page is loaded anew at a path: component state starts over,
\* localStorage stays.
reload(p) ==
    /\ nops < MaxOps
    /\ initAuthRan
    /\ nops' = nops + 1
    /\ uiOp' = "reload"
    /\ path' = p
    /\ user' = "none"
    /\ loading' = TRUE
    /\ initAuthRan' = FALSE
    /\ paymentState' = "idle"
    /\ mockTimers' = <<>>
    /\ adminLoading' = TRUE
    /\ adminList' = <<>>
    /\ inflight' = {}
    /\ eventsPage' = <<>>
    /\ adminEvents' = <<>>
    /\ isSubmitting' = FALSE
    /\ isPaymentOpen' = FALSE
    /\ cardData' = EmptyCard
    /\ resetTimers' = 0
    /\ paying' = 0
    /\ notifyTimers' = 0
    /\ detailsEvent' = NotLoaded
    /\ UNCHANGED <<now, backendVars, lsBookings, lsToken, lsUser,
                   lsPendingEvents, lsApprovedEvents, deletedEvents, notified,
                   detailsId, locationFrom>>

\* ------------------------------------------------- browser: AuthContext
\* Contents of localStorage 'user': the JSON of a user with a role, or a
\* text that is no JSON.
StoredUsers == {"user", "admin", "{malformed"}

\* JSON.parse(storedUser): the stored user, or a SyntaxError that is thrown
JSONparse(text) == IF text \in {"user", "admin"} THEN text ELSE "SyntaxError"

\* initAuth, the mount effect of AuthProvider (DEMO_MODE): the stored user is
\* trusted when both 'token' and 'user' are stored; then setLoading(false).
\* JSON.parse throws in the try block and again in the catch block, which
\* ends initAuth before setLoading(false).
initAuth ==
    /\ ~initAuthRan
    /\ initAuthRan' = TRUE
    /\ uiOp' = "initAuth"
    /\ IF lsToken # "null" /\ lsUser # "null"
       THEN IF JSONparse(lsUser) = "SyntaxError"
            THEN UNCHANGED <<user, loading>>
            ELSE user' = JSONparse(lsUser) /\ loading' = FALSE
       ELSE loading' = FALSE /\ UNCHANGED user
    /\ UNCHANGED <<now, nops, backendVars, lsBookings, paymentState, mockTimers,
                   lsToken, lsUser, path, adminVars, eventVars, detailsVars>>

\* AuthContext login / register / demoLogin as called by the Login page:
\* localStorage.setItem('token' | 'user'), setUser(...), then handleSubmit
\* does navigate(from) and handleDemoLogin (demo) does
\* navigate(role === 'admin' ? '/admin' : '/').
login(role) ==
    /\ nops < MaxOps
    /\ initAuthRan
    /\ path = "/login"
    /\ user = "none"
    /\ nops' = nops + 1
    /\ uiOp' = "login"
    /\ lsToken' = "demo_token"
    /\ lsUser' = role
    /\ user' = role
    /\ \E demo \in BOOLEAN :
          path' = IF demo THEN (IF role = "admin" THEN "/admin" ELSE "/")
                  ELSE LoginFrom
    /\ locationFrom' = NoFrom
    /\ UNCHANGED <<now, backendVars, lsBookings, paymentState, mockTimers,
                   loading, initAuthRan, adminVars, eventVars, modalVars,
                   detailsEvent, detailsId>>

removeItem_Keep(value) == value

\* localStorage.removeItem(key): getItem(key) is null afterwards.
removeItem(value) == "null"

\* Navbar handleLogout: AuthContext logout removes 'token', 'user' and
\* 'bookings' and calls setUser(null); then navigate('/login').
logout ==
    /\ nops < MaxOps
    /\ initAuthRan
    /\ ~effectsPending
    /\ user # "none"
    /\ nops' = nops + 1
    /\ uiOp' = "logout"
    /\ lsToken' = removeItem(lsToken)
    /\ lsUser' = removeItem(lsUser)
    /\ user' = "none"
    /\ lsBookings' = <<>>
    /\ path' = "/login"
    /\ locationFrom' = NoFrom
    /\ UNCHANGED <<now, backendVars, paymentState, mockTimers, loading,
                   initAuthRan, adminVars, eventVars, modalVars, detailsEvent,
                   detailsId>>

MockOrderDetails == [eventId : {"e1"}, ticketCount : {2}, amount : {200}]

\* createMockOrder(bookingDetails): starts the 800 ms timer.
createMockOrder(details) ==
    /\ nops < MaxOps
    /\ Len(mockTimers) < 1
    /\ nops' = nops + 1
    /\ uiOp' = "createMockOrder"
    /\ mockTimers' = Append(mockTimers, details)
    /\ UNCHANGED <<now, backendVars, user, lsBookings, paymentState, authVars,
                   adminVars, eventVars, detailsVars>>

mockOrderStore_Overwrite(existingBookings, newBooking) == <<newBooking>>

\* existingBookings.push(newBooking)
mockOrderStore(existingBookings, newBooking) == Append(existingBookings, newBooking)

\* The timer callback of createMockOrder: resolves, then stores the booking.
createMockOrderTimer ==
    /\ mockTimers # <<>>
    /\ now < Len(Digits)
    /\ now' = now + 1
    /\ uiOp' = "createMockOrderTimer"
    /\ LET details == Head(mockTimers)
           newBooking == [id          |-> LocalBookingId(now'),
                          eventId     |-> details.eventId,
                          ticketCount |-> details.ticketCount,
                          amount      |-> details.amount,
                          status      |-> "confirmed"]
       IN lsBookings' = mockOrderStore(lsBookings, newBooking)
    /\ mockTimers' = Tail(mockTimers)
    /\ UNCHANGED <<nops, backendVars, user, paymentState, authVars, adminVars,
                   eventVars, detailsVars>>

\* ------------------------------------------------ browser: AdminBookings
\* fetchBookings: GET /bookings is not served by the backend routes, so the
\* catch branch sets the sample data.
fetchBookings ==
    /\ adminLoading
    /\ uiOp' = "fetchBookings"
    /\ adminList' = sampleBookings
    /\ adminLoading' = FALSE
    /\ UNCHANGED <<now, nops, backendVars, localVars, inflight, eventVars,
                   detailsVars>>

ButtonsFor_RestoreAlways(b) ==
    (IF b.status = "pending" THEN {"confirmed"} ELSE {"pending"}) \cup
    (IF b.status # "cancelled" THEN {"cancelled"} ELSE {})

\* The action buttons rendered for a booking row: Confirm while pending,
\* Cancel unless cancelled, Restore while cancelled.
ButtonsFor(b) ==
    (IF b.status = "pending" THEN {"confirmed"} ELSE {}) \cup
    (IF b.status # "cancelled" THEN {"cancelled"} ELSE {}) \cup
    (IF b.status = "cancelled" THEN {"pending"} ELSE {})

\* bookings.map((b) => b.id === bookingId ? { ...b, status: newStatus } : b)
MapStatus(bookings, bookingId, newStatus) ==
    [k \in 1..Len(bookings) |->
        IF bookings[k].id = bookingId
          THEN [bookings[k] EXCEPT !.status = newStatus]
          ELSE bookings[k]]

\* handleStatusUpdate(bookingId, newStatus) up to its await; `bookings` is
\* the list of the render in which the button was clicked.
handleStatusUpdate(k, newStatus) ==
    /\ nops < MaxOps
    /\ Cardinality(inflight) < MaxInFlight
    /\ newStatus \in ButtonsFor(adminList[k])
    /\ nops' = nops + 1
    /\ uiOp' = "handleStatusUpdate"
    /\ inflight' = inflight \cup
           {[bookingId |-> adminList[k].id, newStatus |-> newStatus,
             bookings |-> adminList]}
    /\ UNCHANGED <<now, backendVars, localVars, adminLoading, adminList,
                   eventVars, detailsVars>>

\* bookingsAPI.updateStatus settles; the try and the catch branch both call
\* setBookings(bookings.map(...)).
statusUpdateSettled(call, apiOk) ==
    /\ call \in inflight
    /\ uiOp' = "statusUpdateSettled"
    /\ adminList' = MapStatus(call.bookings, call.bookingId, call.newStatus)
    /\ inflight' = inflight \ {call}
    /\ UNCHANGED <<now, nops, backendVars, localVars, adminLoading, eventVars,
                   detailsVars>>

\* ------------------------------------------------------- browser: events
\* const staticEvents = [...] of the Events page (id of each entry; the
\* entries have no status field).
staticEvents == [k \in 1..9 |-> [id |-> k, status |-> "undefined"]]

\* const sampleEvents = [...] of the AdminEvents page (id, status)
sampleEvents ==
    << [id |-> 1, status |-> "published"],
       [id |-> 2, status |-> "published"],
       [id |-> 3, status |-> "draft"] >>

\* id: Date.now() of an event created at time t
CreatedEventId(t) == 1000 + t

\* array.filter(e => e.id !== eventId)
FilterOutId(list, eventId) == SelectSeq(list, LAMBDA e : e.id # eventId)

\* CreateEvent handleSubmit up to its await: validateStep, setIsSubmitting.
handleSubmit(valid) ==
    /\ nops < MaxOps
    /\ ~isSubmitting
    /\ nops' = nops + 1
    /\ uiOp' = "handleSubmit"
    /\ isSubmitting' = valid
    /\ UNCHANGED <<now, backendVars, localVars, adminVars, lsPendingEvents,
                   lsApprovedEvents, eventsPage, adminEvents, deletedEvents,
                   detailsVars>>

\* The email of the demo user with a role (demoLogin); user@demo.com is the
\* fallback of CreateEvent when no user is stored.
UserEmail(role) ==
    IF role = "admin" THEN "admin@eventflow.com"
    ELSE IF role = "user" THEN "demo@eventflow.com"
    ELSE "user@demo.com"

\* handleSubmit after the 2000 ms wait: the new event is pushed to
\* 'pendingEvents' with status 'pending' and createdBy, the email of the
\* stored user, then navigate('/events').
handleSubmitDone ==
    /\ isSubmitting
    /\ now < Len(Digits)
    /\ now' = now + 1
    /\ uiOp' = "handleSubmitDone"
    /\ lsPendingEvents' =
           Append(lsPendingEvents, [id        |-> CreatedEventId(now'),
                                    status    |-> "pending",
                                    createdBy |-> UserEmail(lsUser)])
    /\ path' = "/events"
    /\ isSubmitting' = FALSE
    /\ locationFrom' = NoFrom
    /\ UNCHANGED <<nops, backendVars, user, lsBookings, paymentState,
                   mockTimers, loading, initAuthRan, lsToken, lsUser,
                   adminVars, lsApprovedEvents, eventsPage, adminEvents,
                   deletedEvents, modalVars, detailsEvent, detailsId>>

\* The load effect of the Events page (mount, then the 1000 ms timer):
\* setEvents([...staticEvents, ...approvedEvents])
loadEvents ==
    /\ uiOp' = "loadEvents"
    /\ eventsPage' = staticEvents \o lsApprovedEvents
    /\ UNCHANGED <<now, nops, backendVars, localVars, adminVars,
                   lsPendingEvents, lsApprovedEvents, adminEvents,
                   isSubmitting, deletedEvents, detailsVars>>

\* const allEvents = [...sampleEvents, ...approvedEvents, ...pendingEvents];
allEvents(approved, pending) == sampleEvents \o approved \o pending

\* AdminEvents fetchEvents, as run by the mount effect.
fetchEvents ==
    /\ uiOp' = "fetchEvents"
    /\ adminEvents' = allEvents(lsApprovedEvents, lsPendingEvents)
    /\ UNCHANGED <<now, nops, backendVars, localVars, adminVars,
                   lsPendingEvents, lsApprovedEvents, eventsPage,
                   isSubmitting, deletedEvents, detailsVars>>

publish_KeepStatus(e) == e

\* eventToApprove.status = 'published';
publish(e) == [e EXCEPT !.status = "published"]

\* AdminEvents handleApprove(eventId), with the fetchEvents() it ends with.
handleApprove(eventId) ==
    /\ nops < MaxOps
    /\ \E k \in 1..Len(adminEvents) :
          adminEvents[k].id = eventId /\ adminEvents[k].status = "pending"
    /\ nops' = nops + 1
    /\ uiOp' = "handleApprove"
    /\ IF \E k \in 1..Len(lsPendingEvents) : lsPendingEvents[k].id = eventId
         THEN LET k == CHOOSE j \in 1..Len(lsPendingEvents) :
                         /\ lsPendingEvents[j].id = eventId
                         /\ \A i \in 1..(j - 1) : lsPendingEvents[i].id # eventId
                  eventToApprove == publish(lsPendingEvents[k])
              IN /\ lsPendingEvents' = FilterOutId(lsPendingEvents, eventId)
                 /\ lsApprovedEvents' = Append(lsApprovedEvents, eventToApprove)
                 /\ adminEvents' = allEvents(lsApprovedEvents', lsPendingEvents')
         ELSE UNCHANGED <<lsPendingEvents, lsApprovedEvents, adminEvents,
                          detailsVars>>
    /\ UNCHANGED <<now, backendVars, localVars, adminVars, eventsPage,
                   isSubmitting, deletedEvents, detailsVars>>

\* AdminEvents handleDelete for the event of the delete modal.
handleDelete(k) ==
    /\ nops < MaxOps
    /\ k \in 1..Len(adminEvents)
    /\ nops' = nops + 1
    /\ uiOp' = "handleDelete"
    /\ LET eventId == adminEvents[k].id
       IN /\ lsPendingEvents' = FilterOutId(lsPendingEvents, eventId)
          /\ lsApprovedEvents' = FilterOutId(lsApprovedEvents, eventId)
          /\ adminEvents' = FilterOutId(adminEvents, eventId)
          /\ deletedEvents' = deletedEvents \cup {eventId}
    /\ UNCHANGED <<now, backendVars, localVars, adminVars, eventsPage,
                   isSubmitting, detailsVars>>

\* ------------------------------------------------- browser: EventDetails
DetailIds == {1, CreatedEventId(1)}

\* array.find(e => e.id.toString() === id.toString()), undefined as "null"
Find(list, id) ==
    IF \E k \in 1..Len(list) : list[k].id = id
    THEN list[CHOOSE k \in 1..Len(list) :
                 /\ list[k].id = id
                 /\ \A j \in 1..(k - 1) : list[j].id # id]
    ELSE [id |-> 0, status |-> "null"]

\* The event the load effect of EventDetails finds: static events, then
\* 'approvedEvents', then 'pendingEvents'.
foundEvent(id) ==
    IF Find(staticEvents, id).status # "null" THEN Find(staticEvents, id)
    ELSE IF Find(lsApprovedEvents, id).status # "null" THEN Find(lsApprovedEvents, id)
    ELSE Find(lsPendingEvents, id)

\* A <Link to={`/events/${id}`}> or the address bar opens EventDetails.
gotoEventDetails(id) ==
    /\ nops < MaxOps
    /\ initAuthRan
    /\ ~effectsPending
    /\ path # "/events/:id"
    /\ resetTimers = 0 /\ paying = 0 /\ notifyTimers = 0
    /\ nops' = nops + 1
    /\ uiOp' = "gotoEventDetails"
    /\ path' = "/events/:id"
    /\ detailsId' = id
    /\ detailsEvent' = NotLoaded
    /\ isPaymentOpen' = FALSE
    /\ paymentState' = "idle"
    /\ cardData' = EmptyCard
    /\ locationFrom' = NoFrom
    /\ UNCHANGED <<now, backendVars, user, lsBookings, mockTimers, loading,
                   initAuthRan, lsToken, lsUser, adminVars, eventVars,
                   resetTimers, paying, notifyTimers, notified>>

\* The 800 ms timer of the load effect: setEvent(foundEvent).  With an event
\* the page renders the PaymentModal, whose reset effect (isOpen is false)
\* starts a 300 ms timer.
loadDetails ==
    /\ path = "/events/:id"
    /\ detailsEvent = NotLoaded
    /\ uiOp' = "loadDetails"
    /\ detailsEvent' = foundEvent(detailsId)
    /\ resetTimers' = IF foundEvent(detailsId).status # "null"
                      THEN resetTimers + 1 ELSE resetTimers
    /\ UNCHANGED <<now, nops, backendVars, localVars, adminVars, eventVars,
                   isPaymentOpen, cardData, paying, notifyTimers, notified,
                   detailsId, locationFrom>>

\* The Book Now button is rendered with an event and enabled unless the
\* event is pending.
bookNowEnabled ==
    /\ path = "/events/:id"
    /\ detailsEvent.status \notin {"loading", "null", "pending"}

\* EventDetails handleBooking: to /login with state { from: `/events/${id}` }
\* when not authenticated, else setIsPaymentOpen(true).
handleBooking ==
    /\ bookNowEnabled
    /\ ~isPaymentOpen
    /\ uiOp' = "handleBooking"
    /\ IF ~isAuthenticated
       THEN /\ path' = "/login"
            /\ locationFrom' = [kind |-> "string", id |-> detailsId]
            /\ UNCHANGED isPaymentOpen
       ELSE /\ isPaymentOpen' = TRUE
            /\ UNCHANGED <<path, locationFrom>>
    /\ UNCHANGED <<now, nops, backendVars, user, lsBookings, paymentState,
                   mockTimers, loading, initAuthRan, lsToken, lsUser,
                   adminVars, eventVars, cardData, resetTimers, paying,
                   notifyTimers, notified, detailsEvent, detailsId>>

\* ------------------------------------------------- browser: PaymentModal
CardInputs ==
    { EmptyCard,
      [cardNumber |-> 16, cardName |-> 3, expiry |-> 5, cvv |-> 3],
      [cardNumber |-> 15, cardName |-> 3, expiry |-> 5, cvv |-> 3],
      [cardNumber |-> 16, cardName |-> 3, expiry |-> 5, cvv |-> 2] }

\* validateCard(): no entry in the errors object
validateCard(card) ==
    /\ ~ (card.cardNumber < 16)
    /\ ~ (card.cardName < 3)
    /\ ~ (card.expiry < 5)
    /\ ~ (card.cvv < 3)

\* The modal is shown and its form (with the Pay button) is the idle view.
\* The user fills in the card fields, then handlePayment runs up to its
\* await: validateCard(), event, setPaymentState(PROCESSING).
handlePayment(card) ==
    /\ nops < MaxOps
    /\ isPaymentOpen
    /\ paymentState = "idle"
    /\ nops' = nops + 1
    /\ uiOp' = "handlePayment"
    /\ cardData' = card
    /\ IF validateCard(card)
       THEN paymentState' = "processing" /\ paying' = paying + 1
       ELSE UNCHANGED <<paymentState, paying>>
    /\ UNCHANGED <<now, backendVars, user, lsBookings, mockTimers, authVars,
                   adminVars, eventVars, isPaymentOpen, resetTimers,
                   notifyTimers, notified, detailsEvent, detailsId,
                   locationFrom>>

\* handlePayment after the 2500 ms wait: setPaymentState(SUCCESS), the
\* booking is saved with existingBookings.unshift(booking) and the 2000 ms
\* timer is started; when localStorage throws, the catch branch sets FAILED.
handlePaymentDone(storageOk) ==
    /\ paying > 0
    /\ now < Len(Digits)
    /\ now' = now + 1
    /\ uiOp' = "handlePaymentDone"
    /\ paying' = paying - 1
    /\ LET booking == [id        |-> LocalBookingId(now'),
                       eventId   |-> "e1",
                       tickets   |-> 1,
                       status    |-> "confirmed",
                       paymentId |-> "pay_" \o Digits[now']]
       IN IF storageOk
          THEN /\ paymentState' = "success"
               /\ lsBookings' = <<booking>> \o lsBookings
               /\ notifyTimers' = notifyTimers + 1
          ELSE /\ paymentState' = "failed"
               /\ UNCHANGED <<lsBookings, notifyTimers>>
    /\ UNCHANGED <<nops, backendVars, user, mockTimers, authVars, adminVars,
                   eventVars, isPaymentOpen, cardData, resetTimers, notified,
                   detailsEvent, detailsId, locationFrom>>

\* handleRetry of the failed view
handleRetry ==
    /\ isPaymentOpen
    /\ paymentState = "failed"
    /\ uiOp' = "handleRetry"
    /\ paymentState' = "idle"
    /\ UNCHANGED <<now, nops, backendVars, user, lsBookings, mockTimers,
                   authVars, adminVars, eventVars, detailsVars>>

\* onClose (the close button and backdrop of the idle view, View My Bookings
\* of the success view, Cancel of the failed view): setIsPaymentOpen(false);
\* the reset effect then starts its 300 ms timer.
onClose ==
    /\ resetTimers < MaxInFlight
    /\ isPaymentOpen
    /\ paymentState \in {"idle", "success", "failed"}
    /\ uiOp' = "onClose"
    /\ isPaymentOpen' = FALSE
    /\ resetTimers' = resetTimers + 1
    /\ UNCHANGED <<now, nops, backendVars, localVars, adminVars, eventVars,
                   cardData, paying, notifyTimers, notified, detailsEvent,
                   detailsId, locationFrom>>

\* The 300 ms timer of the reset effect: setPaymentState(IDLE),
\* setCardData({ ...'' })
resetTimer ==
    /\ resetTimers > 0
    /\ uiOp' = "resetTimer"
    /\ resetTimers' = resetTimers - 1
    /\ paymentState' = "idle"
    /\ cardData' = EmptyCard
    /\ UNCHANGED <<now, nops, backendVars, user, lsBookings, mockTimers,
                   authVars, adminVars, eventVars, isPaymentOpen, paying,
                   notifyTimers, notified, detailsEvent, detailsId,
                   locationFrom>>

\* The 2000 ms timer: onPaymentSuccess, which is handlePaymentSuccess of
\* EventDetails: setIsPaymentOpen(false), then navigate('/bookings').
paymentNotified ==
    /\ notifyTimers > 0
    /\ uiOp' = "paymentNotified"
    /\ notifyTimers' = notifyTimers - 1
    /\ notified' = notified + 1
    /\ isPaymentOpen' = FALSE
    /\ resetTimers' = IF isPaymentOpen THEN resetTimers + 1 ELSE resetTimers
    /\ path' = "/bookings"
    /\ locationFrom' = NoFrom
    /\ UNCHANGED <<now, nops, backendVars, user, lsBookings, paymentState,
                   mockTimers, loading, initAuthRan, lsToken, lsUser,
                   adminVars, eventVars, cardData, paying, detailsEvent,
                   detailsId>>

\* -------------------------------------------------------- specifications
\* Payment flow: order creation, capture at the gateway, verification.
NextPay ==
    \/ \E req \in CreateOrderRequests, ok \in BOOLEAN : createOrder(req, ok)
    \/ GatewayCapture
    \/ \E req \in VerifyRequests : verifyPayment(req)
    \/ \E req \in BookEventRequests : bookEvent(req)
    \/ \E k \in 1..MaxInFlight, uniqueIndex \in BOOLEAN : bookEventCreate(k, uniqueIndex)

SpecPay == Init /\ [][NextPay]_vars

\* Payment flow over time: holds age between order creation and verification.
NextHold ==
    \/ Tick
    \/ \E req \in CreateOrderRequests, ok \in BOOLEAN : createOrder(req, ok)
    \/ GatewayCapture
    \/ \E req \in VerifyRequests : verifyPayment(req)

SpecHold == Init /\ [][NextHold]_vars

\* Refunds of captured payments.
NextRefund ==
    \/ \E req \in CreateOrderRequests, ok \in BOOLEAN : createOrder(req, ok)
    \/ GatewayCapture
    \/ \E req \in RefundRequests, ok \in BOOLEAN : initiateRefund(req, ok)

SpecRefund == Init /\ [][NextRefund]_vars

\* Creation of orders and bookings from arbitrary request bodies.
NextCreate ==
    \/ \E req \in CreateOrderRequests \cup CreateOrderRequestsUnchecked,
          ok \in BOOLEAN : createOrder(req, ok)
    \/ \E req \in BookEventRequests : bookEvent(req)
    \/ \E k \in 1..MaxInFlight, uniqueIndex \in BOOLEAN : bookEventCreate(k, uniqueIndex)

SpecCreate == Init /\ [][NextCreate]_vars

\* Requests to the routes of the payment router.
NextRoute ==
    \/ paymentRouter
    \/ GatewayCapture

SpecRoute == Init /\ [][NextRoute]_vars

\* Signature checks: payment verification and webhook deliveries.
NextSig ==
    \/ \E req \in CreateOrderRequests : createOrder(req, TRUE)
    \/ GatewayCapture
    \/ \E req \in VerifyRequests : verifyPayment(req)
    \/ \E req \in WebhookRequests : handleWebhook(req)

SpecSig == Init /\ [][NextSig]_vars

\* Webhook deliveries.
NextHook ==
    \/ \E req \in WebhookRequests : handleWebhook(req)
    \/ \E req \in BookEventRequests : bookEvent(req)
    \/ \E k \in 1..MaxInFlight, uniqueIndex \in BOOLEAN : bookEventCreate(k, uniqueIndex)

SpecHook == Init /\ [][NextHook]_vars

\* The booking stores: the Booking collection and localStorage 'bookings'.
NextStore ==
    \/ \E req \in BookEventRequests : bookEvent(req)
    \/ \E k \in 1..MaxInFlight, uniqueIndex \in BOOLEAN : bookEventCreate(k, uniqueIndex)
    \/ \E req \in AdminUpdateRequests : adminUpdateBooking(req)
    \/ \E k \in 1..MaxInFlight : adminUpdateSave(k)
    \/ \E k \in 1..MaxInFlight : adminUpdateRespond(k)
    \/ \E req \in AdminDeleteRequests : adminDeleteBooking(req)
    \/ initAuth
    \/ \E role \in {"user", "admin"} : login(role)
    \/ logout
    \/ \E d \in MockOrderDetails : createMockOrder(d)
    \/ createMockOrderTimer
    \/ \E id \in DetailIds : gotoEventDetails(id)
    \/ loadDetails
    \/ handleBooking
    \/ \E card \in CardInputs : handlePayment(card)
    \/ \E storageOk \in BOOLEAN : handlePaymentDone(storageOk)
    \/ handleRetry
    \/ onClose
    \/ resetTimer
    \/ paymentNotified

SpecStore == Init /\ [][NextStore]_vars

\* Authentication and routing in the browser.
NextAuth ==
    \/ initAuth
    \/ \E role \in {"user", "admin"} : login(role)
    \/ logout
    \/ \E p \in Paths : goto(p)
    \/ \E p \in Paths : reload(p)
    \/ ProtectedRouteEffect
    \/ LoginEffect

SpecAuth == Init /\ [][NextAuth]_vars

\* Events in the browser: CreateEvent, the Events page and AdminEvents.
NextEvents ==
    \/ \E valid \in BOOLEAN : handleSubmit(valid)
    \/ handleSubmitDone
    \/ loadEvents
    \/ fetchEvents
    \/ \E e \in {adminEvents[k].id : k \in 1..Len(adminEvents)} : handleApprove(e)
    \/ \E k \in 1..Len(adminEvents) : handleDelete(k)

SpecEvents == Init /\ [][NextEvents]_vars

\* Booking status changes: the admin endpoint and the AdminBookings page.
NextStatus ==
    \/ \E req \in BookEventRequests : bookEvent(req)
    \/ \E k \in 1..MaxInFlight, uniqueIndex \in BOOLEAN : bookEventCreate(k, uniqueIndex)
    \/ \E req \in AdminUpdateRequests : adminUpdateBooking(req)
    \/ \E k \in 1..MaxInFlight : adminUpdateSave(k)
    \/ \E k \in 1..MaxInFlight : adminUpdateRespond(k)
    \/ fetchBookings
    \/ \E k \in 1..Len(adminList), s \in {"confirmed", "cancelled", "pending"} :
          handleStatusUpdate(k, s)
    \/ \E call \in inflight, apiOk \in BOOLEAN : statusUpdateSettled(call, apiOk)

SpecStatus == Init /\ [][NextStatus]_vars

\* The page is opened at any route with any content of localStorage 'token'
\* and 'user'; the mount effect of AuthProvider runs once the provider is
\* mounted (weak fairness of initAuth).
InitMount ==
    /\ InitOther
    /\ lsToken \in {"null", "demo_token"}
    /\ lsUser \in {"null"} \cup StoredUsers
    /\ path \in Paths

SpecMountLive == InitMount /\ [][NextAuth]_vars /\ WF_vars(initAuth)

\* Concurrent requests to the booking controller, and events deleted by the
\* admin controller.
NextBooking ==
    \/ \E req \in BookEventRequests : bookEvent(req)
    \/ \E k \in 1..MaxInFlight, uniqueIndex \in BOOLEAN : bookEventCreate(k, uniqueIndex)
    \/ \E req \in AdminUpdateRequests : adminUpdateBooking(req)
    \/ \E k \in 1..MaxInFlight : adminUpdateSave(k)
    \/ \E k \in 1..MaxInFlight : adminUpdateRespond(k)
    \/ \E req \in DeleteEventRequests : deleteEvent(req)

SpecBooking == Init /\ [][NextBooking]_vars

\* The admin controller: accounts and events deleted by an admin.
NextUsers ==
    \/ \E req \in DeleteUserRequests : deleteUser(req)
    \/ \E req \in DeleteEventRequests : deleteEvent(req)

SpecUsers == Init /\ [][NextUsers]_vars

\* The user routes: profiles edited by their owners.
NextProfile ==
    \/ \E req \in ProfileRequests, validatorsPass \in BOOLEAN :
          updateProfile(req, validatorsPass)

SpecProfile == Init /\ [][NextProfile]_vars

\* The page of one event: loading it, Book Now, the payment modal, and the
\* login it may lead to; events are created and wait for approval.
NextDetails ==
    \/ initAuth
    \/ \E role \in {"user", "admin"} : login(role)
    \/ logout
    \/ \E valid \in BOOLEAN : handleSubmit(valid)
    \/ handleSubmitDone
    \/ \E id \in DetailIds : gotoEventDetails(id)
    \/ loadDetails
    \/ handleBooking
    \/ \E card \in CardInputs : handlePayment(card)
    \/ \E storageOk \in BOOLEAN : handlePaymentDone(storageOk)
    \/ handleRetry
    \/ onClose
    \/ resetTimer
    \/ paymentNotified

SpecDetails == Init /\ [][NextDetails]_vars

\* ----------------------------------------------------------------- claims
Range(seq) == {seq[k] : k \in 1..Len(seq)}

\* C1: createOrder calls that share one idempotency key yield one booking:
\* every answer carries the same bookingId and the same (single) gateway order.
C1_OneBookingPerKey ==
    \A i, j \in issued :
        i.key = j.key => i.bookingId = j.bookingId /\ i.orderId = j.orderId

\* The states of the design and its transition graph (spec section 4.3); the
\* backend's name for the initial state, 'booked', is read as pending.
DesignStates == {"pending", "confirmed", "cancelled", "expired", "failed", "refunded"}

DesignState(status) == IF status = "booked" THEN "pending" ELSE status

TransitionGraph ==
    ({"pending"} \X {"confirmed", "cancelled", "expired", "failed"})
        \cup {<<"confirmed", "refunded">>}

\* C2: every change of a stored booking's status is an edge of the graph
\* pending -> confirmed | cancelled | expired | failed, confirmed -> refunded.
C2_TransitionsFollowGraph ==
    [][\A b \in Booking, c \in Booking' :
          (/\ b.id = c.id
           /\ b.status # c.status
           /\ {DesignState(b.status), DesignState(c.status)} \subseteq DesignStates)
          => <<DesignState(b.status), DesignState(c.status)>> \in TransitionGraph]_vars

\* C3: a webhook event delivered N times with the gateway's signature and
\* acknowledged N times has caused exactly one booking state transition.
C3_OneTransitionPerEvent ==
    \A e \in GatewayEventIds :
        (whDelivered[e] >= 1 /\ whAcked[e] = whDelivered[e]) => whApplied[e] = 1

\* C4: verifyPayment for a booking whose hold has expired (the request arrives
\* later than createdAt + HoldDuration) is never answered with success.
C4_ExpiredHoldNotVerified ==
    \A i \in issued :
        (/\ reply.op = "verifyPayment"
         /\ reply.req.bookingId = i.bookingId
         /\ reply.at > i.at + HoldDuration)
        => reply.status # 200

\* C5: a verifyPayment request whose signature is not the HMAC-SHA256 of
\* "order|payment" under the key secret is answered 400 and changes no booking.
C5_InvalidSignatureRejected ==
    [][(/\ nops' # nops
        /\ reply'.op = "verifyPayment"
        /\ reply'.req.razorpay_signature #
             Hmac(KeySecret, VerifyBody(reply'.req.razorpay_order_id,
                                        reply'.req.razorpay_payment_id)))
       => (reply'.status = 400 /\ Booking' = Booking)]_vars

\* C5 witness: a request naming an existing booking, with the order and
\* payment id of a captured payment and the frontend's demo signature, was
\* answered 400.
C5_Witness ==
    /\ reply.op = "verifyPayment"
    /\ reply.status = 400
    /\ \E p \in rzpPayments :
          /\ reply.req.razorpay_order_id = p.order
          /\ reply.req.razorpay_payment_id = p.payment
    /\ reply.req.razorpay_signature = "sig_demo"
    /\ \E b \in Booking : b.id = reply.req.bookingId /\ b.status = DefaultStatus

DocPaymentId(b) == IF "paymentId" \in DOMAIN b THEN b.paymentId ELSE "null"

\* C6: after verifyPayment succeeded for booking B with the order createOrder
\* issued for B, the store holds B as confirmed with the request's payment id.
C6_VerifiedBookingConfirmed ==
    (/\ reply.op = "verifyPayment"
     /\ reply.status = 200
     /\ \E i \in issued : /\ i.bookingId = reply.req.bookingId
                          /\ i.orderId = reply.req.razorpay_order_id)
    => \E b \in Booking : /\ b.id = reply.req.bookingId
                          /\ b.status = "confirmed"
                          /\ DocPaymentId(b) = reply.req.razorpay_payment_id

\* C7: verifyPayment reports success for booking B only when the request's
\* order id is the order issued for B.
C7_VerifyOnlyStoredOrder ==
    (reply.op = "verifyPayment" /\ reply.status = 200)
    => \A i \in issued :
          i.bookingId = reply.req.bookingId => i.orderId = reply.req.razorpay_order_id

\* C8: a booking record has a payment id exactly when its status is
\* confirmed or refunded.
C8_PaymentIdIffPaid ==
    \A b \in Range(lsBookings) \cup Range(adminList) :
        DocPaymentId(b) # "null" <=> b.status \in {"confirmed", "refunded"}

webhookSignaturePassed(req) ==
    WebhookSignature(req) = Hmac(WebhookSecret, Stringify(req.body))

\* C11: a payment.failed webhook that arrives after the payment.captured
\* webhook of the same payment was handled is not accepted: it is not answered
\* with the success acknowledgement and no booking becomes failed.
C11_LateFailureRejected ==
    (/\ reply.op = "handleWebhook"
     /\ webhookSignaturePassed(reply.req)
     /\ reply.req.body.event = "payment.failed"
     /\ reply.req.body.entity # ""
     /\ [event |-> "payment.captured", id |-> reply.req.body.entity] \in whLog)
    => /\ reply.status # 200
       /\ \A b \in Booking : b.status # "failed"

\* C12: handleWebhook answers 200 exactly when its signature check passed,
\* whatever the event type and the payload.
C12_AckOnceSignaturePasses ==
    reply.op = "handleWebhook"
    => (reply.status = 200 <=> webhookSignaturePassed(reply.req))

\* C13: a createOrder request whose ticketCount or amount is <= 0 is answered
\* 400, and a createOrder or bookEvent request whose eventId names no stored
\* event is answered 404; neither creates a gateway order or a booking.
C13_CreationValidated ==
    [][/\ (/\ nops' # nops
            /\ reply'.op = "createOrder"
            /\ (reply'.req.ticketCount <= 0 \/ reply'.req.amount <= 0))
           => (reply'.status = 400 /\ rzpOrders' = rzpOrders /\ Booking' = Booking)
       /\ (/\ nops' # nops
            /\ reply'.op \in {"createOrder", "bookEvent"}
            /\ reply'.req.eventId # ""
            /\ reply'.req.eventId \notin Event
            /\ reply'.op = "createOrder"
                  => (reply'.req.ticketCount > 0 /\ reply'.req.amount > 0))
           => (reply'.status = 404 /\ rzpOrders' = rzpOrders /\ Booking' = Booking)]_vars

\* C14: a refund is created at the gateway only for a booking that is
\* confirmed; the step moves that booking to refunded and keeps its payment
\* id, and no refund is created for a payment that was refunded before.
C14_RefundOnlyConfirmed ==
    [][\A r \in rzpRefunds' \ rzpRefunds :
          /\ \E b \in Booking, c \in Booking' :
                /\ b.id = c.id
                /\ b.status = "confirmed"
                /\ c.status = "refunded"
                /\ DocPaymentId(b) = r.payment
                /\ DocPaymentId(c) = r.payment
          /\ \A q \in rzpRefunds : q.payment # r.payment]_vars

\* The verifyPayment request has no acceptable signature.
verifySignatureRejected(req) ==
    ~ isAuthentic(req.razorpay_order_id, req.razorpay_payment_id,
                  req.razorpay_signature)

\* C15: two successive requests to verifyPayment, or to handleWebhook, that
\* differ only in their unacceptable signature (missing versus wrong value)
\* get the same status and the same body, and a request with an unacceptable
\* signature is answered 400, never 500.
C15_UniformSignatureFailure ==
    [][/\ (/\ nops' # nops
            /\ reply.op = "verifyPayment" /\ reply'.op = "verifyPayment"
            /\ verifySignatureRejected(reply.req)
            /\ verifySignatureRejected(reply'.req)
            /\ [reply.req EXCEPT !.razorpay_signature = ""]
                  = [reply'.req EXCEPT !.razorpay_signature = ""])
           => (reply'.status = reply.status /\ reply'.res = reply.res)
       /\ (/\ nops' # nops
            /\ reply.op = "handleWebhook" /\ reply'.op = "handleWebhook"
            /\ ~ webhookSignaturePassed(reply.req)
            /\ ~ webhookSignaturePassed(reply'.req)
            /\ [reply.req EXCEPT !.sig = ""] = [reply'.req EXCEPT !.sig = ""])
           => (reply'.status = reply.status /\ reply'.res = reply.res)
       /\ (/\ nops' # nops
            /\ \/ reply'.op = "verifyPayment" /\ verifySignatureRejected(reply'.req)
               \/ reply'.op = "handleWebhook" /\ ~ webhookSignaturePassed(reply'.req))
           => reply'.status = 400]_vars

\* C16: createOrder, verifyPayment, getPaymentByOrderId and initiateRefund
\* answer only requests that carry an Authorization header.
C16_PaymentRoutesPrivate ==
    reply.op \in {"createOrder", "verifyPayment", "getPaymentByOrderId",
                  "initiateRefund"}
    => reply.req.authorization # ""

\* ProtectedRoute renders its children exactly when loading has finished, a
\* user is authenticated and, for an adminOnly route, that user is an admin.
childrenOnlyWhenAllowed ==
    \A p \in ProtectedPaths :
        RouteElement(p) = "children"
        <=> (~loading /\ isAuthenticated /\ (adminOnly(p) => isAdmin))

\* C17: ProtectedRoute renders its children only when loading has finished, a
\* user is authenticated and (adminOnly) is an admin; otherwise it renders the
\* spinner or nothing, and once loading has finished the next navigation from
\* the protected route goes to /login when unauthenticated and to / when
\* authenticated but not admin.
C17_ProtectedRouteGuards ==
    [][/\ childrenOnlyWhenAllowed
       /\ childrenOnlyWhenAllowed'
       /\ \A p \in ProtectedPaths : RouteElement(p) \in {"spinner", "null", "children"}
       /\ uiOp' = "ProtectedRouteEffect" => (path \in ProtectedPaths /\ ~loading)
       /\ (path \in ProtectedPaths /\ ~loading /\ ~isAuthenticated
             /\ uiOp' # "reload")
             => (uiOp' = "ProtectedRouteEffect" /\ path' = "/login")
       /\ (path \in ProtectedPaths /\ ~loading /\ isAuthenticated
             /\ adminOnly(path) /\ ~isAdmin /\ uiOp' # "reload")
             => (uiOp' = "ProtectedRouteEffect" /\ path' = "/")
       /\ (path \in ProtectedPaths /\ RouteElement(path) = "children"
             /\ uiOp' \notin {"reload", "logout", "goto"})
             => path' = path]_vars

\* C17 witness: a logged-in user who is not an admin opened the adminOnly
\* route and the effect of ProtectedRoute has taken the browser to /.
C17_Witness ==
    /\ uiOp = "ProtectedRouteEffect"
    /\ path = "/"
    /\ user = "user"
    /\ ~loading

\* C18: logout leaves localStorage without 'token' and 'user' and the context
\* without a user (isAuthenticated and isAdmin false); this lasts until the
\* next login, and meanwhile a protected route, once loading has finished,
\* is left for /login.
C18_LoggedOutUntilLogin ==
    [][/\ uiOp' = "logout"
             => (lsToken' = "null" /\ lsUser' = "null"
                 /\ ~isAuthenticated' /\ ~isAdmin')
       /\ (lsToken = "null" /\ lsUser = "null" /\ uiOp' # "login")
             => (lsToken' = "null" /\ lsUser' = "null"
                 /\ ~isAuthenticated' /\ ~isAdmin'
                 /\ \A p \in ProtectedPaths : RouteElement(p)' # "children")
       /\ (lsToken = "null" /\ path \in ProtectedPaths /\ ~loading
             /\ uiOp' # "reload")
             => path' = "/login"]_vars

\* C18 witness: a user who had logged in has logged out and is on /login.
C18_Witness ==
    /\ uiOp = "logout"
    /\ lsToken = "null" /\ lsUser = "null"
    /\ ~isAuthenticated
    /\ path = "/login"
    /\ nops >= 2

\* C19: the event CreateEvent stores is pending and in 'pendingEvents' only;
\* an event enters 'approvedEvents' only by handleApprove, which takes it out
\* of 'pendingEvents' and makes it published; the listing of the Events page
\* never contains an event whose status is pending.
C19_PendingNotListed ==
    [][/\ \A e \in Range(eventsPage) \cup Range(eventsPage') : e.status # "pending"
       /\ uiOp' = "handleSubmitDone"
             => /\ Len(lsPendingEvents') = Len(lsPendingEvents) + 1
                /\ lsPendingEvents'[Len(lsPendingEvents')].status = "pending"
                /\ \A e \in Range(lsApprovedEvents') \cup Range(eventsPage') :
                      e.id # lsPendingEvents'[Len(lsPendingEvents')].id
       /\ \A e \in Range(lsApprovedEvents') \ Range(lsApprovedEvents) :
             /\ uiOp' = "handleApprove"
             /\ e.status = "published"
             /\ \E q \in Range(lsPendingEvents) : q.id = e.id /\ q.status = "pending"
             /\ \A q \in Range(lsPendingEvents') : q.id # e.id
             /\ \A q \in Range(eventsPage) : q.id # e.id]_vars

\* C19 witness: an event made by CreateEvent was approved and is in the
\* listing of the Events page as published.
C19_Witness ==
    \E e \in Range(eventsPage) :
        e.id >= CreatedEventId(0) /\ e.status = "published"

\* C20: an event that handleDelete has removed is never in the events list of
\* the AdminEvents page afterwards.
C20_DeletedStaysDeleted ==
    \A e \in Range(adminEvents) : e.id \notin deletedEvents
\* C21: PaymentModal reaches SUCCESS only from PROCESSING and PROCESSING
\* only from IDLE with card data that passes validateCard; a booking is
\* written only on entering SUCCESS, one confirmed booking per payment, and
\* onPaymentSuccess is called once for it.
C21_PaymentStateMachine ==
    [][/\ (paymentState' = "success" /\ paymentState # "success")
             => paymentState = "processing"
       /\ (paymentState' = "processing" /\ paymentState # "processing")
             => (paymentState = "idle" /\ validateCard(cardData'))
       /\ Len(lsBookings') > Len(lsBookings)
             => /\ lsBookings' = <<Head(lsBookings')>> \o lsBookings
                /\ Head(lsBookings').status = "confirmed"
                /\ paymentState' = "success"
                /\ paying' = paying - 1
                /\ notifyTimers' = notifyTimers + 1
       /\ notified' # notified
             => (notified' = notified + 1 /\ notifyTimers' = notifyTimers - 1)]_vars

\* C22: the store never holds two bookings of one (user, event) pair, and a
\* bookEvent request for a pair that is already booked is answered 400 (404
\* when the event is gone).
C22_NoDuplicateBooking ==
    [][/\ \A b, c \in Booking' :
             (b.user = c.user /\ b.event = c.event) => b = c
       /\ (/\ reply' # reply
           /\ reply'.op = "bookEvent"
           /\ \E b \in Booking :
                 b.user = reply'.req.user /\ b.event = reply'.req.eventId)
             => (reply'.status = 400 \/ reply'.req.eventId \notin Event)]_vars

\* C23: an adminUpdateBooking request that answers 200 returns the booking
\* with the status it wrote, and booking.save() writes only onto the stored
\* document the request has read.
C23_UpdatesLinearized ==
    [][/\ (/\ reply' # reply
           /\ reply'.op = "adminUpdateBooking"
           /\ reply'.status = 200
           /\ reply'.req.status # "")
             => reply'.res = [reply'.res EXCEPT !.status = reply'.req.status]
       /\ (Booking' # Booking /\ Len(updateCalls') = Len(updateCalls)
           /\ updateCalls' # updateCalls)
             => \E k \in 1..Len(updateCalls) :
                   /\ ~ updateCalls[k].saved
                   /\ updateCalls'[k].saved
                   /\ updateCalls[k].read \in Booking]_vars

\* C24: no status update of AdminBookings is lost: a handleStatusUpdate call
\* that settles leaves the entries of all other bookings as they are in the
\* list, also those another call has changed while this one was in flight.
C24_NoLostStatusUpdate ==
    [][\A call \in inflight \ inflight' :
          \A k \in 1..Len(adminList) :
              adminList[k].id # call.bookingId => adminList'[k] = adminList[k]]_vars

\* C25: every stored booking names an event of the Event collection.
C25_BookingsReferenceEvents == \A b \in Booking : b.event \in Event

\* C26: after AuthProvider mounts, loading becomes false, whatever
\* localStorage holds.
C26_LoadingEnds == loading ~> ~loading

\* C27: EventDetails shows a pending event only to an admin or to the user
\* who created it.
C27_PendingOnlyForCreatorOrAdmin ==
    (path = "/events/:id" /\ detailsEvent.status = "pending")
        => \/ isAdmin
           \/ (isAuthenticated /\ detailsEvent.createdBy = UserEmail(user))

\* C28: a login on the /login page that Book Now of event E has led to shows
\* /events/E next.
C28_LoginReturnsToEvent ==
    [][(uiOp' = "login" /\ nops' # nops /\ locationFrom.kind # "null")
          => (path' = "/events/:id" /\ detailsId' = locationFrom.id)]_vars

C30_ProfileFrame ==
    [][(nops' # nops /\ reply'.op = "updateProfile")
          => LET req == reply'.req
             IN /\ \A u \in User : u.id # req.requester => u \in User'
                /\ Cardinality(User') = Cardinality(User)
                /\ \A u \in User : u.id = req.requester =>
                      \E v \in User' :
                          /\ v.id = u.id
                          /\ v.role = u.role
                          /\ v.email = u.email
                          /\ v.password = u.password
                          /\ \A f \in {"name", "phone", "avatar"} :
                                /\ v[f] \in {u[f], req.body[f]}
                                /\ req.body[f] \in {"undefined", ""} => v[f] = u[f]]_vars

\* C30 witness: a request whose body names role, email and password besides a
\* new name was answered 200 and the name is the new one.
C30_Witness ==
    /\ reply.op = "updateProfile"
    /\ reply.status = 200
    /\ reply.req.body.role = "admin"
    /\ reply.req.body.email # "undefined"
    /\ reply.req.body.password # "undefined"
    /\ reply.req.body.phone = "undefined"
    /\ \E u \in User :
          u.id = reply.req.requester /\ u.name = reply.req.body.name /\ u.role = "user"

====
